---- MODULE Spec2Model ----
(***************************************************************************)
(* Model of blueprints.py: the lenient markdown-table parser               *)
(* markdown_table_to_csv and the Streamlit "Send" handler that calls it.   *)
(* Strings are sequences of one-character strings.                         *)
(***************************************************************************)
EXTENDS Integers, Sequences, FiniteSets, TLC

VARIABLES
    api_key,       \* st.text_input('OpenAI API Key')
    img_input,     \* st.file_uploader('Images'): the uploads' file-name extensions
    content,       \* what the inference API answers in this run
    pc,            \* "start": Send pressed, handler not yet run; "done": run over;
                   \* "call" / "returned": before / after a direct call of the parser
    response_msg,  \* str(response.choices[0].message.content)
    df,            \* the DataFrame markdown_table_to_csv returned, NoDf without one
    raised,        \* the exception markdown_table_to_csv raised, NoExc without one
    csv,           \* the bytes handed to st.download_button
    page,          \* the elements the handler rendered, in order
    stopped,       \* st.stop() was called
    uncaught       \* the run died of an exception nothing caught

vars == <<api_key, img_input, content, pc, response_msg, df, raised, csv, page,
         stopped, uncaught>>

\* Largest number of lines in a response text of the model.
MaxLines == 3

-----------------------------------------------------------------------------
(* Python string primitives used by the parser                             *)

\* Characters str.strip() / str.rstrip() remove when called without argument.
Whitespace == {" ", "\t", "\n", "\r"}

Range(s) == {s[i] : i \in 1..Len(s)}

\* str.lstrip(chars)
LStripChars(s, chars) ==
    LET keep == {i \in 1..Len(s) : s[i] \notin chars}
    IN  IF keep = {} THEN <<>>
        ELSE SubSeq(s, CHOOSE i \in keep : \A j \in keep : i <= j, Len(s))

\* str.rstrip(chars)
RStripChars(s, chars) ==
    LET keep == {i \in 1..Len(s) : s[i] \notin chars}
    IN  IF keep = {} THEN <<>>
        ELSE SubSeq(s, 1, CHOOSE i \in keep : \A j \in keep : j <= i)

\* str.strip(chars)
StripChars(s, chars) == LStripChars(RStripChars(s, chars), chars)

\* str.rstrip()
rstrip(s) == RStripChars(s, Whitespace)

\* str.strip()
strip(s) == StripChars(s, Whitespace)

\* str.startswith(c) for a one-character prefix
startswith(s, c) == Len(s) >= 1 /\ s[1] = c

\* str.replace(c, '') for a one-character c
remove(s, c) == SelectSeq(s, LAMBDA x : x # c)

\* str.split(sep) for a one-character sep: always at least one piece
RECURSIVE split(_, _)
split(s, sep) ==
    LET hits == {i \in 1..Len(s) : s[i] = sep}
    IN  IF hits = {} THEN <<s>>
        ELSE LET k == CHOOSE i \in hits : \A j \in hits : i <= j
             IN  <<SubSeq(s, 1, k - 1)>> \o split(SubSeq(s, k + 1, Len(s)), sep)

\* [x.rstrip() for x in xs]
rstrip_each(xs) == [i \in 1..Len(xs) |-> rstrip(xs[i])]

\* [x.strip() for x in xs]
strip_each(xs) == [i \in 1..Len(xs) |-> strip(xs[i])]

\* xs[:n] for n >= 0
Take(xs, n) == SubSeq(xs, 1, IF n < Len(xs) THEN n ELSE Len(xs))

\* xs[n:] for n >= 0
Drop(xs, n) == SubSeq(xs, n + 1, Len(xs))

-----------------------------------------------------------------------------
(* markdown_table_to_csv                                                   *)

NA == <<"N", "/", "A">>

MsgNoTable == "Could not find a valid markdown table in the provided text."
MsgNoRows == "No valid data rows were found in the table."

\* expected_columns = ['Item Description', 'Quantity', 'Unit']
expected_columns ==
    << <<"I", "t", "e", "m", " ", "D", "e", "s", "c", "r", "i", "p", "t", "i", "o", "n">>,
       <<"Q", "u", "a", "n", "t", "i", "t", "y">>,
       <<"U", "n", "i", "t">> >>

\* lines = [line.rstrip() for line in markdown_text.split('\n')]
lines(markdown_text) == rstrip_each(split(markdown_text, "\n"))

\* Mutant: the filter tests line.startswith('|') on the untrimmed line.
table_lines_nostrip(markdown_text) ==
    strip_each(SelectSeq(lines(markdown_text), LAMBDA l : startswith(l, "|")))

\* Mutant: the table is the first contiguous block of pipe-leading lines.
table_lines_contiguous(markdown_text) ==
    LET ls == lines(markdown_text)
        isrow(l) == startswith(strip(l), "|")
        rows == {i \in 1..Len(ls) : isrow(ls[i])}
    IN  IF rows = {} THEN <<>>
        ELSE LET first == CHOOSE i \in rows : \A j \in rows : i <= j
                 stops == {i \in first..Len(ls) : ~isrow(ls[i])} \cup {Len(ls) + 1}
                 stop == CHOOSE i \in stops : \A j \in stops : i <= j
             IN  strip_each(SubSeq(ls, first, stop - 1))

\* table_lines = [line.strip() for line in lines if line.strip().startswith('|')]
table_lines(markdown_text) ==
    strip_each(SelectSeq(lines(markdown_text), LAMBDA l : startswith(strip(l), "|")))

\* row = row.strip('|')
strip_pipes(row) == StripChars(row, {"|"})

\* cells = [cell.strip() for cell in row.split('|')]
cells_of(row) == strip_each(split(strip_pipes(row), "|"))

\* Mutant: missing cells are filled with the empty string.
pad_empty(cells, expected_cols) ==
    cells \o [i \in 1..(IF Len(cells) < expected_cols
                        THEN expected_cols - Len(cells) ELSE 0) |-> <<>>]

\* while len(cells) < expected_cols: cells.append('N/A')
pad(cells, expected_cols) ==
    cells \o [i \in 1..(IF Len(cells) < expected_cols
                        THEN expected_cols - Len(cells) ELSE 0) |-> NA]

\* Mutant: surplus cells are kept.
truncate_none(cells, expected_cols) == cells

\* return cells[:expected_cols]
truncate(cells, expected_cols) == Take(cells, expected_cols)

split_row(row, expected_cols) ==
    truncate(pad(cells_of(row), expected_cols), expected_cols)

\* Mutant: the header keeps the cells its line has.
header_of_actual(tl) == cells_of(tl[1])

\* header = split_row(table_lines[0], 3)
\* if len(header) < 3: header = expected_columns[:len(header)] + ['Unit'] * (3 - len(header))
header_of(tl) ==
    LET header == split_row(tl[1], 3)
    IN  IF Len(header) < 3
        THEN Take(expected_columns, Len(header))
                 \o [i \in 1..(3 - Len(header)) |-> expected_columns[3]]
        ELSE header

\* dash_chars.issubset({'-'})
is_separator(line) == Range(remove(remove(line, "|"), " ")) \subseteq {"-"}

\* Mutant: the second line is never skipped.
data_start_idx_never(tl) == 1

\* data_start_idx, 0-based as in the source
data_start_idx(tl) ==
    IF Len(tl) > 1 /\ is_separator(tl[2]) THEN 2 ELSE 1

\* Mutant: every separator line after the header is skipped.
data_rows_skipdash(tl) ==
    LET n == Len(header_of(tl))
        rows == SelectSeq(Drop(tl, 1), LAMBDA row : ~is_separator(row))
    IN  [i \in 1..Len(rows) |-> split_row(rows[i], n)]

\* data_rows
data_rows(tl) ==
    LET n == Len(header_of(tl))
        rows == Drop(tl, data_start_idx(tl))
    IN  [i \in 1..Len(rows) |-> split_row(rows[i], n)]

\* raise ValueError(msg)
Raise(msg) == [ok |-> FALSE, exc |-> "ValueError", msg |-> msg,
               columns |-> <<>>, rows |-> <<>>]

\* pd.DataFrame(data_rows, columns=expected_columns)
DataFrame(rows, columns) == [ok |-> TRUE, exc |-> "", msg |-> "",
                             columns |-> columns, rows |-> rows]

markdown_table_to_csv(markdown_text) ==
    LET tl == table_lines(markdown_text)
    IN  IF Len(tl) < 2 THEN Raise(MsgNoTable)
        ELSE IF data_rows(tl) = <<>> THEN Raise(MsgNoRows)
        ELSE DataFrame(data_rows(tl), expected_columns)

-----------------------------------------------------------------------------
(* The page script: widgets and the Send handler                           *)

\* Response texts of the model: the lines the inference API may answer with.
Lines ==
    { <<>>,
      <<"a", "|">>,
      <<"\t", "|", "a", " ", "b", "|", " ", "c", " ">>,
      <<"|", "-", "|", " ", "-", "|">>,
      <<"|", " ", "|">>,
      <<"|", "|", "a", "|", "b", "|">>,
      <<"|", "a", "|", "b", "|", "c", "|", "d", "|">>,
      <<"|", ":", "-", "|">>,
      <<"|", "-", "\t", "|">>,
      <<"|", "a", "|", "5", "|", "|">> }

\* '\n'.join(ls)
RECURSIVE join_lines(_)
join_lines(ls) ==
    IF ls = <<>> THEN <<>>
    ELSE IF Len(ls) = 1 THEN ls[1]
    ELSE ls[1] \o <<"\n">> \o join_lines(Tail(ls))

Texts == {join_lines(ls) : ls \in UNION {[1..n -> Lines] : n \in 0..MaxLines}}

\* File-name extensions of the uploads the model tries.
Uploads == {<<"PNG">>, <<"jpg", "bmp">>}

ApiKeys == {"", "sk-key"}

\* img.name.split('.')[-1].lower()
lower(e) == IF e = "PNG" THEN "png" ELSE e

supported == {"png", "jpg", "jpeg", "gif", "webp"}

NoDf == [ok |-> FALSE, columns |-> <<>>, rows |-> <<>>]

NoExc == [exc |-> "", msg |-> ""]

\* The value a call leaves in df, and the exception it leaves in raised.
returned(r) == IF r.ok THEN [ok |-> TRUE, columns |-> r.columns, rows |-> r.rows] ELSE NoDf
exception(r) == IF r.ok THEN NoExc ELSE [exc |-> r.exc, msg |-> r.msg]

El(kind, msg, text) == [kind |-> kind, msg |-> msg, text |-> text]

\* one csv field, quoted when it holds the delimiter, a quote or a line break
csv_field(cell) ==
    IF Range(cell) \cap {",", "\"", "\n", "\r"} = {} THEN cell
    ELSE <<"\"">> \o cell \o <<"\"">>

RECURSIVE csv_line(_)
csv_line(cells) ==
    IF cells = <<>> THEN <<>>
    ELSE IF Len(cells) = 1 THEN csv_field(cells[1])
    ELSE csv_field(cells[1]) \o <<",">> \o csv_line(Tail(cells))

\* df.to_csv(index=False): the header line, then one line per row
to_csv(d) == <<csv_line(d.columns)>> \o [i \in 1..Len(d.rows) |-> csv_line(d.rows[i])]

\* A script run with Send pressed: the widgets' values and the answer the
\* inference API will give are the run's inputs.
Init ==
    /\ api_key \in ApiKeys
    /\ img_input \in Uploads
    /\ content \in Texts
    /\ pc = "start"
    /\ response_msg = <<>>
    /\ df = NoDf
    /\ raised = NoExc
    /\ csv = <<>>
    /\ page = <<>>
    /\ stopped = FALSE
    /\ uncaught = FALSE

\* if not api_key: st.warning(...); st.stop()
SendNoKey ==
    /\ pc = "start"
    /\ api_key = ""
    /\ page' = <<El("warning", "API Key required", <<>>)>>
    /\ stopped' = TRUE
    /\ pc' = "done"
    /\ UNCHANGED <<api_key, img_input, content, response_msg, df, raised, csv, uncaught>>

\* an upload of an unsupported type: st.warning(...); st.stop()
SendBadImage ==
    /\ pc = "start"
    /\ api_key # ""
    /\ \E i \in 1..Len(img_input) : lower(img_input[i]) \notin supported
    /\ page' = <<El("warning", "Only .jpg, .png, .gif, or .webp are supported", <<>>)>>
    /\ stopped' = TRUE
    /\ pc' = "done"
    /\ UNCHANGED <<api_key, img_input, content, response_msg, df, raised, csv, uncaught>>

\* Mutant: the except branch shows the error without the raw response.
assistant_noraw(text) ==
    LET r == markdown_table_to_csv(text)
        shown == <<El("markdown", "", text)>>
    IN  IF r.ok
        THEN [df |-> returned(r), raised |-> NoExc, csv |-> to_csv(r),
              stopped |-> FALSE, uncaught |-> FALSE,
              page |-> shown \o <<El("download_button", "Download table as CSV", <<>>)>>]
        ELSE [df |-> NoDf, raised |-> exception(r), csv |-> <<>>,
              stopped |-> TRUE, uncaught |-> FALSE,
              page |-> shown \o <<El("error", r.msg, <<>>)>>]

\* with st.chat_message('assistant'): what a non-empty response shows.
assistant(text) ==
    LET r == markdown_table_to_csv(text)
        shown == <<El("markdown", "", text)>>
    IN  IF r.ok
        THEN [df |-> returned(r), raised |-> NoExc, csv |-> to_csv(r),
              stopped |-> FALSE, uncaught |-> FALSE,
              page |-> shown \o <<El("download_button", "Download table as CSV", <<>>)>>]
        ELSE IF r.exc = "ValueError"
        THEN [df |-> NoDf, raised |-> exception(r), csv |-> <<>>,
              stopped |-> TRUE, uncaught |-> FALSE,
              page |-> shown \o <<El("error", r.msg, <<>>),
                                  El("markdown", "Odpowiedz z API:", <<>>),  \* diacritics dropped
                                  El("markdown", "", text)>>]
        ELSE [df |-> NoDf, raised |-> exception(r), csv |-> <<>>,
              stopped |-> FALSE, uncaught |-> TRUE,
              page |-> shown]

\* The request is made and answered; the answer is shown and parsed.
SendOk ==
    /\ pc = "start"
    /\ api_key # ""
    /\ \A i \in 1..Len(img_input) : lower(img_input[i]) \in supported
    /\ response_msg' = content
    /\ LET head == <<El("write", "Surowa odpowiedz z API:", <<>>),
                     El("write", "", content),
                     El("chat_user", "prompt", <<>>)>>
       IN  IF content # <<>>
           THEN LET a == assistant(content)
                IN  /\ df' = a.df
                    /\ raised' = a.raised
                    /\ csv' = a.csv
                    /\ page' = head \o a.page
                    /\ stopped' = a.stopped
                    /\ uncaught' = a.uncaught
           ELSE /\ df' = NoDf
                /\ raised' = NoExc
                /\ csv' = <<>>
                /\ page' = head
                /\ stopped' = FALSE
                /\ uncaught' = FALSE
    /\ pc' = "done"
    /\ UNCHANGED <<api_key, img_input, content>>

Next == SendNoKey \/ SendBadImage \/ SendOk

Spec == Init /\ [][Next]_vars

-----------------------------------------------------------------------------
(* The parser called on its own, as a library function                     *)

InitParser ==
    /\ api_key = ""
    /\ img_input = <<>>
    /\ content \in Texts
    /\ pc = "call"
    /\ response_msg = <<>>
    /\ df = NoDf
    /\ raised = NoExc
    /\ csv = <<>>
    /\ page = <<>>
    /\ stopped = FALSE
    /\ uncaught = FALSE

\* df = markdown_table_to_csv(content)
Call ==
    /\ pc = "call"
    /\ LET r == markdown_table_to_csv(content)
       IN  /\ df' = returned(r)
           /\ raised' = exception(r)
    /\ pc' = "returned"
    /\ UNCHANGED <<api_key, img_input, content, response_msg, csv, page, stopped, uncaught>>

NextParser == Call

ParserSpec == InitParser /\ [][NextParser]_vars

-----------------------------------------------------------------------------
(* Vocabulary of the properties                                            *)

\* The first character of l that is not whitespace is a pipe.
IsPipeLeading(l) ==
    \E i \in 1..Len(l) : l[i] = "|" /\ \A j \in 1..(i - 1) : l[j] \in Whitespace

\* Number of lines of text t whose first non-whitespace character is a pipe,
\* counted on the characters of t.
PipeLeadingCount(t) ==
    Cardinality({i \in 1..Len(t) :
        /\ t[i] = "|"
        /\ \E j \in 0..(i - 1) :
              /\ j = 0 \/ t[j] = "\n"
              /\ \A k \in (j + 1)..(i - 1) : t[k] \in Whitespace \ {"\n"}})

\* The pipe-leading lines of the parsed text, in input order, trimmed.
TL == strip_each(SelectSeq(split(content, "\n"), IsPipeLeading))

\* Without its pipes and spaces the line is one or more dashes.
DashOnly(l) ==
    LET r == remove(remove(l, "|"), " ")
    IN  r # <<>> /\ \A i \in 1..Len(r) : r[i] = "-"

\* The table line the i-th returned row was read from: rows are the last lines.
DataLine(i) == TL[Len(TL) - Len(df.rows) + i]

NA3 == <<NA, NA, NA>>

\* What a call on text t returns or raises.
Outcome(t) ==
    LET r == markdown_table_to_csv(t) IN <<returned(r), exception(r)>>

Insert(ls, k, l) == SubSeq(ls, 1, k) \o <<l>> \o SubSeq(ls, k + 1, Len(ls))

Remove(ls, k) == SubSeq(ls, 1, k - 1) \o SubSeq(ls, k + 1, Len(ls))

\* Lines that do not start a table row.
Noise == {l \in Lines : ~IsPipeLeading(l)}

\* Header lines of one, two and more than three cells.
Headers ==
    { <<"|", " ", "|">>,
      <<"\t", "|", "a", " ", "b", "|", " ", "c", " ">>,
      <<"|", "a", "|", "b", "|", "c", "|", "d", "|">> }

\* ls with its first pipe-leading line replaced by h.
ReplaceHeader(ls, h) ==
    LET k == CHOOSE i \in 1..Len(ls) :
                 IsPipeLeading(ls[i]) /\ \A j \in 1..(i - 1) : ~IsPipeLeading(ls[j])
    IN  [i \in 1..Len(ls) |-> IF i = k THEN h ELSE ls[i]]

\* A line without one leading and one trailing pipe.
OnePipe(l) ==
    LET a == IF Len(l) >= 1 /\ l[1] = "|" THEN Tail(l) ELSE l
    IN  IF Len(a) >= 1 /\ a[Len(a)] = "|" THEN SubSeq(a, 1, Len(a) - 1) ELSE a

Shown(kind) == \E i \in 1..Len(page) : page[i].kind = kind

-----------------------------------------------------------------------------
(* Properties                                                              *)

\* C1: every row of a returned table has exactly 3 cells, whatever the number
\* of cells in the header line and in each data line.
C1_RowsHaveThreeCells ==
    (pc = "returned" /\ df.ok) => \A i \in 1..Len(df.rows) : Len(df.rows[i]) = 3

\* A table returned from a header of more than 3 cells, with a data line of
\* fewer than 3 cells and one of more than 3.
C1_Witness ==
    /\ pc = "returned" /\ df.ok
    /\ Len(cells_of(TL[1])) > 3
    /\ \E i \in 1..Len(df.rows) : Len(cells_of(DataLine(i))) < 3
    /\ \E i \in 1..Len(df.rows) : Len(cells_of(DataLine(i))) > 3

\* C2: the call raises the 'Could not find a valid markdown table' ValueError
\* exactly when the text has fewer than 2 pipe-leading lines, and then it
\* returns no table and does not raise the 'No valid data rows' error.
C2_MalformedIffFewerThanTwo ==
    pc = "returned" =>
        /\ (raised = [exc |-> "ValueError", msg |-> MsgNoTable])
               <=> (PipeLeadingCount(content) < 2)
        /\ PipeLeadingCount(content) < 2 => ~df.ok /\ raised.msg # MsgNoRows

\* The malformed-table error raised for a text with exactly one pipe-leading
\* line, that one indented.
C2_Witness ==
    /\ pc = "returned"
    /\ raised.msg = MsgNoTable
    /\ PipeLeadingCount(content) = 1
    /\ Len(content) >= 1 /\ content[1] \in {" ", "\t"}

\* C3: with at least 2 pipe-leading lines the 'No valid data rows' ValueError
\* is raised exactly when there are exactly 2 of them and the second is
\* recognised as a separator; a header followed by a line of dashes and
\* nothing else is such a case, and no table is returned with the error.
C3_EmptyIffHeaderAndSeparatorOnly ==
    (pc = "returned" /\ PipeLeadingCount(content) >= 2) =>
        /\ (raised = [exc |-> "ValueError", msg |-> MsgNoRows])
               <=> (Len(TL) = 2 /\ is_separator(TL[2]))
        /\ (Len(TL) = 2 /\ DashOnly(TL[2])) => raised.msg = MsgNoRows
        /\ raised.msg = MsgNoRows => ~df.ok

\* The empty-table error raised for a header and a line of dashes.
C3_Witness ==
    /\ pc = "returned"
    /\ raised.msg = MsgNoRows
    /\ Len(TL) = 2 /\ DashOnly(TL[2])

C5_SeparatorIffDashOnly ==
    (pc = "returned" /\ Len(TL) >= 2) =>
        IF DashOnly(TL[2])
        THEN Len(df.rows) = Len(TL) - 2
        ELSE /\ df.ok
             /\ Len(df.rows) = Len(TL) - 1
             /\ df.rows[1] = split_row(TL[2], 3)

\* C6: a returned row is the first 3 of: the cells of its line followed by
\* three 'N/A' cells; the cells themselves are unchanged.
C6_PadAndTruncate ==
    (pc = "returned" /\ df.ok) =>
        \A i \in 1..Len(df.rows) :
            df.rows[i] = SubSeq(cells_of(DataLine(i)) \o NA3, 1, 3)

\* A table with a padded row and a truncated row.
C6_Witness ==
    /\ pc = "returned" /\ df.ok
    /\ \E i \in 1..Len(df.rows) :
          Len(cells_of(DataLine(i))) < 3 /\ df.rows[i][3] = NA
    /\ \E i \in 1..Len(df.rows) :
          Len(cells_of(DataLine(i))) > 3 /\ df.rows[i] = SubSeq(cells_of(DataLine(i)), 1, 3)

C8_HeaderContentIgnored ==
    (pc = "returned" /\ Len(TL) >= 1) =>
        /\ \A h \in Headers :
               Outcome(join_lines(ReplaceHeader(split(content, "\n"), h))) = <<df, raised>>
        /\ df.ok => df.columns = expected_columns

\* A table returned for a text whose header line has one cell only.
C8_Witness ==
    /\ pc = "returned" /\ df.ok
    /\ Len(cells_of(TL[1])) = 1
    /\ Len(df.rows) >= 2

\* C9: a run that received a non-empty response and whose parse failed ends
\* with the error and the raw response shown, no download offered and no
\* uncaught exception; a download is offered only when a table was returned.
C9_ParseFailureShown ==
    (pc = "done" /\ response_msg # <<>>) =>
        /\ raised # NoExc =>
               /\ \E i \in 1..Len(page) :
                      /\ page[i].kind = "error" /\ page[i].msg = raised.msg
                      /\ \E j \in (i + 1)..Len(page) :
                             page[j] = El("markdown", "", response_msg)
               /\ ~Shown("download_button")
               /\ ~uncaught
        /\ Shown("download_button") => df.ok /\ raised = NoExc

\* A run ended on the empty-table error.
C9_Witness ==
    /\ pc = "done" /\ response_msg # <<>>
    /\ raised.msg = MsgNoRows
    /\ Shown("error")

\* C10: every row is read from its line by removing exactly one leading and
\* one trailing pipe, splitting on pipes and trimming each cell.
C10_OnePipeRemoved ==
    (pc = "returned" /\ df.ok) =>
        \A i \in 1..Len(df.rows) :
            df.rows[i] = SubSeq(strip_each(split(OnePipe(DataLine(i)), "|")) \o NA3, 1, 3)

====
